---------------------------- MODULE Spec2Model ----------------------------
(***************************************************************************)
(* The Snake simulation engine of snakerman.                               *)
(*                                                                         *)
(*   src/src/lib/game.ts     class Game, toroidal edges, obstacles         *)
(*   src/unnamed/part_000    the same class in JavaScript; its fatal and   *)
(*                           finished-game returns carry no ate field,     *)
(*                           which reads as false                          *)
(*   src/unnamed/part_001    class Game, bounded edges ("wall"), no        *)
(*                           obstacles                                     *)
(*                                                                         *)
(*   src/src/main.js         the tick driver: animation frames, the pause  *)
(*                           button, fed by src/src/input.js               *)
(*                                                                         *)
(* One engine instance is modelled; its configuration (which class, cols,  *)
(* rows, obstacleCount) is chosen in Init and never changes.  Math.random  *)
(* is a nondeterministic choice.  Spec is the engine under arbitrary calls *)
(* of its methods; DriverSpec is the engine as main.js calls it.           *)
(***************************************************************************)
EXTENDS Integers, Sequences, FiniteSets

VARIABLES
    mode,           \* which Game class: "toroidal" (game.ts) or "bounded" (part_001)
    cols,           \* this.cols
    rows,           \* this.rows
    obstacleCount,  \* this.obstacleCount
    snake,          \* this.snake, head first
    direction,      \* this.direction
    nextDirection,  \* this.nextDirection
    food,           \* this.food, a point or Null
    score,          \* this.score
    over,           \* this.over
    growAmount,     \* this.growAmount
    obstacles,      \* this.obstacles
    op,             \* the last call made on the engine
    arg,            \* the argument of the last setDirection call since the last reset
    result,         \* the value returned by the last step call, NoOutcome before the first
    newHead,        \* the local newHead of the last step call
    accepted,       \* the last non-reversal setDirection argument since the last step
    ticks,          \* step calls made since the last reset
    running,        \* main.js: running
    accumulated,    \* main.js: accumulated
    inputDir,       \* input.js: Input.dir
    pc,             \* main.js: where the frame callback stands, "idle" between handlers
    frame           \* running and game.over as they were when the last frame began

vars == <<mode, cols, rows, obstacleCount, snake, direction, nextDirection,
          food, score, over, growAmount, obstacles, op, arg, result, newHead,
          accepted, ticks, running, accumulated, inputDir, pc, frame>>

\* the state of main.js and input.js
driver == <<running, accumulated, inputDir, pc, frame>>

config == <<mode, cols, rows, obstacleCount>>

(***************************************************************************)
(* Bounds of the model.                                                    *)
(***************************************************************************)
MaxTicks == 4

\* the engines explored: <<cols, rows, obstacleCount>> passed to the constructor
ToroidalConfigs ==
    {<<4, 3, 0>>, <<4, 2, 0>>, <<4, 2, 2>>, <<4, 1, 0>>, <<4, 1, 2>>, <<2, 2, 0>>,
     <<1, 3, 0>>}

\* <<cols, rows>> passed to the constructor of part_001
BoundedConfigs == {<<4, 3>>, <<4, 1>>, <<2, 2>>}

\* the engines main.js is explored with, in place of its 24 x 24 board
DriverConfigs == {<<4, 2, 0>>, <<4, 1, 2>>}

\* the values of ts - lastTs the frames are explored with, in milliseconds
FrameTimes == {0, 60, 120, 300}

\* main.js: the logic tick interval
TICK_MS == 120

(***************************************************************************)
(* Values.                                                                 *)
(***************************************************************************)
Point(x, y) == [x |-> x, y |-> y]

\* food = null
Null == [null |-> TRUE]

\* no direction / no point recorded
None == Point(0, 0)

\* the unit vectors the input handlers pass to setDirection
Dirs == {Point(0, -1), Point(0, 1), Point(-1, 0), Point(1, 0)}

Neg(d) == Point(-d.x, -d.y)

\* the elements of an array
Cells(s) == {s[i] : i \in 1..Len(s)}

\* for (x = 0; x < cols; x++) for (y = 0; y < rows; y++)
Grid == {Point(x, y) : x \in 0..(cols - 1), y \in 0..(rows - 1)}

\* the JavaScript remainder a % n for n > 0: the sign follows the dividend
JsRem(a, n) == IF a >= 0 THEN a % n ELSE -((-a) % n)

\* a variant with the bare remainder, which keeps the sign of a
WrapBare(a, n) == JsRem(a, n)

\* ((a % n) + n) % n
Wrap(a, n) == JsRem(JsRem(a, n) + n, n)

\* { ate, died, reason? }
Outcome(ate, died, reason) == [ate |-> ate, died |-> died, reason |-> reason]

NoOutcome == Outcome(FALSE, FALSE, "none")

(***************************************************************************)
(* reset: the start snake.                                                 *)
(***************************************************************************)
\* a variant that lays the body out to the right of the head
startSnakeAtMirrored(c, r) ==
    LET midX == c \div 2
        midY == r \div 2
    IN  <<Point(midX, midY), Point(midX + 1, midY), Point(midX + 2, midY)>>

\* this.snake of reset for this.cols = c, this.rows = r
startSnakeAt(c, r) ==
    LET midX == c \div 2
        midY == r \div 2
    IN  <<Point(midX, midY), Point(midX - 1, midY), Point(midX - 2, midY)>>

startSnake == startSnakeAt(cols, rows)

(***************************************************************************)
(* generateObstacles(count): every array the random splices can build.     *)
(***************************************************************************)
\* a variant that leaves the chosen cell in free, so that it can be chosen again
RECURSIVE pickObstaclesWithRepeats(_, _)
pickObstaclesWithRepeats(free, count) ==
    IF count <= 0 \/ free = {}
    THEN {<<>>}
    ELSE UNION {{<<p>> \o rest : rest \in pickObstaclesWithRepeats(free, count - 1)}
                : p \in free}

RECURSIVE pickObstacles(_, _)
pickObstacles(free, count) ==
    IF count <= 0 \/ free = {}
    THEN {<<>>}
    ELSE UNION {{<<p>> \o rest : rest \in pickObstacles(free \ {p}, count - 1)}
                : p \in free}

generateObstacles(snk, count) ==
    IF count <= 0
    THEN {<<>>}
    ELSE pickObstacles(Grid \ Cells(snk), count)

(***************************************************************************)
(* placeFood: every value this.food can get.                               *)
(***************************************************************************)
freeCells(snk, obs) == Grid \ (Cells(snk) \cup Cells(obs))

\* a variant that leaves the snake out of the occupied set
placeFoodOnSnake(snk, obs) ==
    IF Grid \ Cells(obs) = {} THEN {Null} ELSE Grid \ Cells(obs)

\* a variant that leaves the obstacles out of the occupied set
placeFoodOnObstacles(snk, obs) ==
    IF Grid \ Cells(snk) = {} THEN {Null} ELSE Grid \ Cells(snk)

placeFood(snk, obs) ==
    IF freeCells(snk, obs) = {} THEN {Null} ELSE freeCells(snk, obs)

\* part_001: no obstacles
placeFoodBounded(snk) ==
    IF Grid \ Cells(snk) = {} THEN {Null} ELSE Grid \ Cells(snk)

(***************************************************************************)
(* Init: the state the constructor leaves.                                 *)
(***************************************************************************)
Init ==
    /\ \/ /\ mode = "toroidal"
          /\ \E c \in ToroidalConfigs :
                cols = c[1] /\ rows = c[2] /\ obstacleCount = c[3]
       \/ /\ mode = "bounded"
          /\ \E c \in BoundedConfigs :
                cols = c[1] /\ rows = c[2] /\ obstacleCount = 0
    /\ snake = startSnake
    /\ direction = Point(1, 0)
    /\ nextDirection = Point(1, 0)
    /\ score = 0
    /\ over = FALSE
    /\ growAmount = 0
    /\ obstacles \in (IF mode = "toroidal"
                      THEN generateObstacles(snake, obstacleCount)
                      ELSE {<<>>})
    /\ food \in (IF mode = "toroidal"
                 THEN placeFood(snake, obstacles)
                 ELSE placeFoodBounded(snake))
    /\ op = "reset"
    /\ arg = None
    /\ result = NoOutcome
    /\ newHead = None
    /\ accepted = None
    /\ ticks = 0
    /\ running = TRUE
    /\ accumulated = 0
    /\ inputDir = Point(1, 0)
    /\ pc = "idle"
    /\ frame = [running |-> FALSE, over |-> FALSE]

(***************************************************************************)
(* reset()                                                                 *)
(***************************************************************************)
reset ==
    /\ mode = "toroidal"
    /\ snake' = startSnake
    /\ direction' = Point(1, 0)
    /\ nextDirection' = Point(1, 0)
    /\ score' = 0
    /\ over' = FALSE
    /\ growAmount' = 0
    /\ obstacles' \in generateObstacles(snake', obstacleCount)
    /\ food' \in placeFood(snake', obstacles')
    /\ op' = "reset"
    /\ arg' = None
    /\ newHead' = None
    /\ accepted' = None
    /\ ticks' = 0
    /\ UNCHANGED <<config, result>>

resetBounded ==
    /\ mode = "bounded"
    /\ snake' = startSnake
    /\ direction' = Point(1, 0)
    /\ nextDirection' = Point(1, 0)
    /\ score' = 0
    /\ over' = FALSE
    /\ growAmount' = 0
    /\ food' \in placeFoodBounded(snake')
    /\ op' = "reset"
    /\ arg' = None
    /\ newHead' = None
    /\ accepted' = None
    /\ ticks' = 0
    /\ UNCHANGED <<config, obstacles, result>>

(***************************************************************************)
(* setDirection(dir)                                                       *)
(***************************************************************************)
\* a variant that compares with the queued direction instead of the applied one
isReversalOfQueued(dir) == dir.x = -nextDirection.x /\ dir.y = -nextDirection.y

\* a variant without the reversal check
isReversalNever(dir) == FALSE

\* dir.x === -this.direction.x && dir.y === -this.direction.y
isReversal(dir) == dir.x = -direction.x /\ dir.y = -direction.y

setDirection(dir) ==
    /\ nextDirection' = IF isReversal(dir) THEN nextDirection ELSE dir
    /\ op' = "setDirection"
    /\ arg' = dir
    /\ accepted' = IF dir = Neg(direction) THEN accepted ELSE dir
    /\ UNCHANGED <<config, snake, direction, food, score, over, growAmount,
                   obstacles, result, newHead, ticks>>

(***************************************************************************)
(* step()                                                                  *)
(***************************************************************************)
\* a variant without the early return of a finished game
alreadyOverIgnored == FALSE

\* if (this.over) return ...
alreadyOver == over

\* a variant that advances the head by two cells
wrappedHeadTwoCells(head, dir) ==
    Point(Wrap(head.x + 2 * dir.x, cols), Wrap(head.y + 2 * dir.y, rows))

\* newHead after the wrap-around of game.ts
wrappedHead(head, dir) ==
    Point(Wrap(head.x + dir.x, cols), Wrap(head.y + dir.y, rows))

\* newHead of part_001: no wrap
plainHead(head, dir) == Point(head.x + dir.x, head.y + dir.y)

\* a variant with > for >=: the cell just past the last column or row passes
hitsWallOffByOne(nh) == nh.x < 0 \/ nh.x > cols \/ nh.y < 0 \/ nh.y > rows

\* newHead.x < 0 || newHead.x >= this.cols || newHead.y < 0 || newHead.y >= this.rows
hitsWall(nh) == nh.x < 0 \/ nh.x >= cols \/ nh.y < 0 \/ nh.y >= rows

\* a variant that looks at the first obstacle only
hitsObstacleFirstOnly(nh) == Len(obstacles) >= 1 /\ obstacles[1] = nh

\* this.obstacles.some(o => o.x === newHead.x && o.y === newHead.y)
hitsObstacle(nh) == \E i \in 1..Len(obstacles) : obstacles[i] = nh

\* a variant without the self-collision check
hitsSelfNever(nh) == FALSE

\* a variant that leaves out the tail, as if it had already moved away
hitsSelfButTail(nh) == \E i \in 1..(Len(snake) - 1) : snake[i] = nh

\* this.snake.some(seg => seg.x === newHead.x && seg.y === newHead.y)
hitsSelf(nh) == \E i \in 1..Len(snake) : snake[i] = nh

\* this.food && newHead.x === this.food.x && newHead.y === this.food.y
eats(nh) == food # Null /\ nh = food

\* a variant that forgets the point
scoreAfterEatForgotten(s) == s

\* this.score += 1
scoreAfterEat(s) == s + 1

\* a variant that grows by two segments per food
growAfterEatTwice(g) == g + 2

\* this.growAmount += 1
growAfterEat(g) == g + 1

\* a variant that removes the head instead of the tail: shift() for pop()
popHead(s) == SubSeq(s, 2, Len(s))

\* the array without its last element: this.snake.pop()
pop(s) == SubSeq(s, 1, Len(s) - 1)

\* the no-op return of a finished game
stepOver ==
    /\ result' = Outcome(FALSE, TRUE, "none")
    /\ newHead' = None
    /\ UNCHANGED <<snake, direction, food, score, over, growAmount>>

\* a variant that reports the collision and forgets this.over = true
stepDieStillRunning(nh, reason) ==
    /\ direction' = nextDirection
    /\ result' = Outcome(FALSE, TRUE, reason)
    /\ newHead' = nh
    /\ UNCHANGED <<snake, food, score, growAmount, over>>

\* a fatal collision: over = true, the snake is not touched
stepDie(nh, reason) ==
    /\ direction' = nextDirection
    /\ over' = TRUE
    /\ result' = Outcome(FALSE, TRUE, reason)
    /\ newHead' = nh
    /\ UNCHANGED <<snake, food, score, growAmount>>

\* unshift, food check, growth: foods is what placeFood can choose after the unshift
stepMove(nh, foods) ==
    LET moved == <<nh>> \o snake
        ate == eats(nh)
        grow == IF ate THEN growAfterEat(growAmount) ELSE growAmount
    IN  /\ direction' = nextDirection
        /\ score' = IF ate THEN scoreAfterEat(score) ELSE score
        /\ food' \in (IF ate THEN foods ELSE {food})
        /\ growAmount' = IF grow > 0 THEN grow - 1 ELSE grow
        /\ snake' = IF grow > 0 THEN moved ELSE pop(moved)
        /\ result' = Outcome(ate, FALSE, "none")
        /\ newHead' = nh
        /\ UNCHANGED over

step ==
    /\ mode = "toroidal"
    /\ ticks < MaxTicks
    /\ IF alreadyOver
       THEN stepOver
       ELSE LET nh == wrappedHead(snake[1], nextDirection)
            IN  IF hitsObstacle(nh) THEN stepDie(nh, "obstacle")
                ELSE IF hitsSelf(nh) THEN stepDie(nh, "self")
                ELSE stepMove(nh, placeFood(<<nh>> \o snake, obstacles))
    /\ op' = "step"
    /\ accepted' = None
    /\ ticks' = ticks + 1
    /\ UNCHANGED <<config, nextDirection, obstacles, arg>>

stepBounded ==
    /\ mode = "bounded"
    /\ ticks < MaxTicks
    /\ IF alreadyOver
       THEN stepOver
       ELSE LET nh == plainHead(snake[1], nextDirection)
            IN  IF hitsWall(nh) THEN stepDie(nh, "wall")
                ELSE IF hitsSelf(nh) THEN stepDie(nh, "self")
                ELSE stepMove(nh, placeFoodBounded(<<nh>> \o snake))
    /\ op' = "step"
    /\ accepted' = None
    /\ ticks' = ticks + 1
    /\ UNCHANGED <<config, nextDirection, obstacles, arg>>

Next ==
    \/ reset /\ UNCHANGED driver
    \/ resetBounded /\ UNCHANGED driver
    \/ \E dir \in Dirs : setDirection(dir) /\ UNCHANGED driver
    \/ step /\ UNCHANGED driver
    \/ stepBounded /\ UNCHANGED driver

Spec == Init /\ [][Next]_vars

(***************************************************************************)
(* main.js and input.js: the tick driver.  JavaScript runs one handler at  *)
(* a time, so a key, a click or a frame begins only when pc = "idle".      *)
(***************************************************************************)
\* the part of the state no driver handler writes but through the engine's methods
game == <<config, snake, direction, nextDirection, food, score, over, growAmount,
          obstacles, op, arg, result, newHead, accepted, ticks>>

\* Input._onKey: a mapped key sets this.dir
keydown(dir) ==
    /\ pc = "idle"
    /\ inputDir' = dir
    /\ UNCHANGED <<game, running, accumulated, pc, frame>>

\* a variant that ticks while paused
shouldTickWhilePaused == ~over

\* running && !game.over
shouldTick == running /\ ~over

\* loop(ts) up to the while loop; dt = ts - lastTs.  A frame begins only when
\* the steps it owes fit under MaxTicks.
loop(dt) ==
    /\ pc = "idle"
    /\ shouldTick => ticks + ((accumulated + dt) \div TICK_MS) <= MaxTicks
    /\ frame' = [running |-> running, over |-> over]
    /\ accumulated' = IF shouldTick THEN accumulated + dt ELSE accumulated
    /\ pc' = IF shouldTick /\ accumulated' >= TICK_MS THEN "stepTick" ELSE "idle"
    /\ UNCHANGED <<game, running, inputDir>>

\* stepTick: game.setDirection(input.consume())
stepTickSetDirection ==
    /\ pc = "stepTick"
    /\ setDirection(inputDir)
    /\ pc' = "step"
    /\ UNCHANGED <<running, accumulated, inputDir, frame>>

\* stepTick: game.step() and the died test; then accumulated -= TICK_MS and
\* the test of the while loop
stepTickStep ==
    /\ pc = "step"
    /\ step
    /\ running' = IF result'.died THEN FALSE ELSE running
    /\ accumulated' = accumulated - TICK_MS
    /\ pc' = IF accumulated' >= TICK_MS THEN "stepTick" ELSE "idle"
    /\ UNCHANGED <<inputDir, frame>>

\* the click handler of pauseBtn
click ==
    /\ pc = "idle"
    /\ IF ~running /\ over
       THEN /\ reset
            /\ running' = TRUE
            /\ accumulated' = 0
       ELSE /\ running' = ~running
            /\ UNCHANGED <<game, accumulated>>
    /\ UNCHANGED <<inputDir, pc, frame>>

DriverInit ==
    /\ Init
    /\ mode = "toroidal"
    /\ <<cols, rows, obstacleCount>> \in DriverConfigs

DriverNext ==
    \/ \E dir \in Dirs : keydown(dir)
    \/ \E dt \in FrameTimes : loop(dt)
    \/ stepTickSetDirection
    \/ stepTickStep
    \/ click

DriverSpec == DriverInit /\ [][DriverNext]_vars

(***************************************************************************)
(* Properties.                                                             *)
(***************************************************************************)
\* the fields of the engine a round changes
engine == <<snake, direction, nextDirection, food, score, over, growAmount, obstacles>>

Distinct(s) == \A i, j \in 1..Len(s) : i # j => s[i] # s[j]

\* C1: setDirection(-direction) leaves nextDirection unchanged; setDirection
\* of each of the other three unit vectors sets nextDirection to it.
ReversalRejection ==
    [][op' = "setDirection" =>
         IF arg' = Neg(direction)
         THEN nextDirection' = nextDirection
         ELSE nextDirection' = arg']_vars

\* a reversal of a direction other than the start direction was just rejected
\* while another direction was queued
ReversalRejectionWitness ==
    /\ op = "setDirection"
    /\ direction = Point(0, 1)
    /\ arg = Point(0, -1)
    /\ nextDirection = Point(-1, 0)

\* C2: on a finished game every step returns died = true and leaves snake,
\* score and food as they were.
TerminalIdempotence ==
    [][(over /\ op' = "step") =>
         /\ result'.died
         /\ snake' = snake
         /\ score' = score
         /\ food' = food]_vars

\* step was called on a finished game that had scored
TerminalIdempotenceWitness ==
    /\ over
    /\ op = "step"
    /\ result = Outcome(FALSE, TRUE, "none")
    /\ score >= 1

\* C3 as stated: on a finished game neither step nor setDirection changes
\* any field of the engine (stated for the grids that hold the whole start
\* snake, cols >= 4).
PostGameOverNoOps ==
    [][(cols >= 4 /\ over /\ op' \in {"step", "setDirection"}) =>
         UNCHANGED engine]_vars

\* C3 as amended: on a finished game step changes no field of the engine, and
\* setDirection changes none but nextDirection, which it still sets to every
\* argument that is not the reverse of direction.
PostGameOverCalls ==
    [][(over /\ op' \in {"step", "setDirection"}) =>
         /\ UNCHANGED <<snake, direction, food, score, over, growAmount, obstacles>>
         /\ op' = "step" => nextDirection' = nextDirection
         /\ op' = "setDirection" =>
              nextDirection' = (IF arg' = Neg(direction) THEN nextDirection ELSE arg')]_vars

\* a setDirection call on a finished game has changed nextDirection: the fatal
\* step left nextDirection equal to direction
PostGameOverCallsWitness ==
    /\ over
    /\ op = "setDirection"
    /\ nextDirection = arg
    /\ nextDirection # direction

\* C4: food is absent or one cell of the grid that is no snake segment and no
\* obstacle; a step that eats does not die.
FoodExclusivity ==
    /\ \/ food = Null
       \/ /\ food \in Grid
          /\ food \notin Cells(snake)
          /\ food \notin Cells(obstacles)
    /\ (op = "step" /\ result.ate) => (~result.died /\ ~over)

\* food was placed again by a step that ate, on a board with obstacles
FoodExclusivityWitness ==
    /\ op = "step"
    /\ result.ate
    /\ food # Null
    /\ Len(obstacles) = 2

\* C5: the snake has at least one segment and no two segments on one cell.
SnakeInvariant == Len(snake) >= 1 /\ Distinct(snake)

\* a step into the snake's own body ended the game instead of moving
SnakeInvariantWitness ==
    /\ op = "step"
    /\ result.reason = "self"
    /\ newHead \in Cells(snake)

\* C6: a non-fatal step that ate makes the snake one segment longer, a
\* non-fatal step that did not eat keeps its length.
GrowthInvariant ==
    [][(op' = "step" /\ ~result'.died) =>
         Len(snake') = Len(snake) + (IF result'.ate THEN 1 ELSE 0)]_vars

\* a step that did not eat, taken after the snake had grown
GrowthInvariantWitness ==
    /\ op = "step"
    /\ ~result.died
    /\ ~result.ate
    /\ score >= 1
    /\ Len(snake) = 3 + score

\* C7: within a round the score goes up by exactly 1 in every step that ate
\* and is unchanged by every other step and every setDirection call.
ScoreMonotonicity ==
    [][op' \in {"step", "setDirection"} =>
         score' = score + (IF op' = "step" /\ result'.ate THEN 1 ELSE 0)]_vars

\* two foods eaten in one round
ScoreMonotonicityWitness ==
    /\ score = 2
    /\ op = "step"
    /\ result.ate

\* C8: setDirection calls never change direction, and a step of a running
\* game applies the argument of the last call accepted since the previous
\* step, or keeps the direction when none was accepted.
LastWriteWins ==
    [][/\ op' = "setDirection" => direction' = direction
       /\ (op' = "step" /\ ~over) =>
            direction' = (IF accepted # None THEN accepted ELSE direction)]_vars

\* the first step applied an accepted call although the last call before it,
\* a reversal, was rejected
LastWriteWinsWitness ==
    /\ op = "step"
    /\ ticks = 1
    /\ direction = Point(0, -1)
    /\ arg = Point(-1, 0)

\* C9 as stated: a step never commits the reverse of the direction committed
\* before it, and its candidate head never is the second segment (stated for
\* the grids that hold the whole start snake, cols >= 4).
NeverIntoNeck ==
    [][(cols >= 4 /\ op' = "step" /\ ~over) =>
         /\ direction' # Neg(direction)
         /\ newHead' # snake[2]]_vars

\* C9 as amended: a step never commits the reverse of the direction committed
\* before it; its candidate head never is the second segment in the bounded
\* engine, nor in the toroidal engine unless cols or rows is 2.
NeverReverses ==
    [][(op' = "step" /\ ~over) =>
         /\ direction' # Neg(direction)
         /\ (mode = "bounded" \/ (cols # 2 /\ rows # 2)) => newHead' # snake[2]]_vars

\* a step of a running game taken right after a rejected reversal
NeverReversesWitness ==
    /\ op = "step"
    /\ ~result.died
    /\ ticks >= 2
    /\ arg = Neg(direction)

\* C10 as stated: in the toroidal engine a step from the last column with
\* direction (1,0) moves the head to column 0 and does not end the game
\* (stated for the grids that hold the whole start snake, cols >= 4).
ToroidalWrapAlwaysMoves ==
    [][(mode = "toroidal" /\ cols >= 4 /\ op' = "step" /\ ~over
          /\ snake[1].x = cols - 1 /\ nextDirection = Point(1, 0)) =>
         /\ snake'[1] = Point(0, snake[1].y)
         /\ ~over']_vars

\* C10 as amended: in the toroidal engine the candidate head is the floored
\* modulo of head + direction, which from the last column with direction
\* (1,0) is column 0; no step returns "wall"; and the step moves the head
\* there without ending the game whenever that cell holds no obstacle and no
\* snake segment.
ToroidalWrap ==
    [][(mode = "toroidal" /\ op' = "step" /\ ~over) =>
         /\ newHead' = Point((snake[1].x + nextDirection.x) % cols,
                             (snake[1].y + nextDirection.y) % rows)
         /\ (snake[1].x = cols - 1 /\ nextDirection = Point(1, 0)) =>
              newHead' = Point(0, snake[1].y)
         /\ result'.reason # "wall"
         /\ newHead' \notin (Cells(snake) \cup Cells(obstacles)) =>
              (snake'[1] = newHead' /\ ~over')]_vars

\* the head went from the last column to column 0 and the game goes on
ToroidalWrapWitness ==
    /\ mode = "toroidal"
    /\ cols = 4
    /\ op = "step"
    /\ ~over
    /\ direction = Point(1, 0)
    /\ snake[1].x = 0
    /\ snake[2].x = 3

\* C11: in the bounded engine a step whose candidate head lies outside the
\* grid returns died = true with reason "wall", sets over and leaves snake,
\* score, food and growAmount unchanged.
BoundedDeath ==
    [][(mode = "bounded" /\ op' = "step" /\ ~over
          /\ Point(snake[1].x + nextDirection.x, snake[1].y + nextDirection.y)
               \notin Grid) =>
         /\ result' = Outcome(FALSE, TRUE, "wall")
         /\ over'
         /\ UNCHANGED <<snake, score, food, growAmount>>]_vars

\* the head was in column 0 and the step went on with direction (-1,0)
BoundedDeathWitness ==
    /\ mode = "bounded"
    /\ op = "step"
    /\ result.reason = "wall"
    /\ over
    /\ snake[1].x = 0
    /\ direction = Point(-1, 0)

\* C12: a step whose candidate head is any segment of the snake as it is
\* before the move, the last one included, returns died = true with reason
\* "self", sets over and leaves the snake unchanged.
SelfCollisionCountsTail ==
    [][(op' = "step" /\ ~over /\ newHead' \in Cells(snake)
          /\ (mode = "bounded" => newHead' \in Grid)) =>
         /\ result' = Outcome(FALSE, TRUE, "self")
         /\ over'
         /\ snake' = snake]_vars

\* the candidate head was the tail, which a move would have vacated
SelfCollisionCountsTailWitness ==
    /\ op = "step"
    /\ result.reason = "self"
    /\ Len(snake) = 4
    /\ newHead = snake[Len(snake)]

\* C13: a step whose candidate head is an obstacle returns died = true with
\* reason "obstacle", sets over and leaves the snake unchanged; no step and
\* no setDirection call changes the obstacles.
ObstaclesFatalAndFixed ==
    [][/\ (mode = "toroidal" /\ op' = "step" /\ ~over
             /\ newHead' \in Cells(obstacles)) =>
            /\ result' = Outcome(FALSE, TRUE, "obstacle")
            /\ over'
            /\ snake' = snake
       /\ op' \in {"step", "setDirection"} => obstacles' = obstacles]_vars

\* the snake ran into the second of two obstacles after having moved
ObstaclesFatalAndFixedWitness ==
    /\ op = "step"
    /\ result.reason = "obstacle"
    /\ ticks >= 2
    /\ Len(obstacles) = 2
    /\ newHead = obstacles[2]

\* C14: from any state reset leaves snake = [(mx,my),(mx-1,my),(mx-2,my)] with
\* mx = floor(cols/2), my = floor(rows/2), direction = nextDirection = (1,0),
\* score = 0, over = false, growAmount = 0, obstacles generated anew for that
\* snake and food placed after them; for cols = rows = 10 the snake is
\* [(5,5),(4,5),(3,5)].
ResetCanonical ==
    /\ [][op' = "reset" =>
            /\ Len(snake') = 3
            /\ snake'[1] = Point(cols \div 2, rows \div 2)
            /\ snake'[2] = Point((cols \div 2) - 1, rows \div 2)
            /\ snake'[3] = Point((cols \div 2) - 2, rows \div 2)
            /\ direction' = Point(1, 0)
            /\ nextDirection' = Point(1, 0)
            /\ score' = 0
            /\ ~over'
            /\ growAmount' = 0
            /\ Cells(obstacles') \cap Cells(snake') = {}
            /\ Len(obstacles') <= obstacleCount
            /\ IF Grid \ (Cells(snake') \cup Cells(obstacles')) = {}
               THEN food' = Null
               ELSE food' \in Grid \ (Cells(snake') \cup Cells(obstacles'))]_vars
    /\ startSnakeAt(10, 10) = <<Point(5, 5), Point(4, 5), Point(3, 5)>>

\* reset was called on a finished game and laid out two obstacles anew
ResetCanonicalWitness ==
    /\ op = "reset"
    /\ result.died
    /\ ~over
    /\ score = 0
    /\ Len(snake) = 3
    /\ Len(obstacles) = 2

\* C15: every snake segment, every obstacle and the food, when there is one,
\* lies in [0, cols) x [0, rows).
PositionsInRange ==
    /\ Cells(snake) \subseteq Grid
    /\ Cells(obstacles) \subseteq Grid
    /\ food # Null => food \in Grid

\* C16: the obstacles are pairwise distinct cells of the grid, none of them a
\* segment of the start snake, and there are min(obstacleCount, number of
\* grid cells off the start snake) of them.
ObstaclePlacement ==
    LET free == Grid \ Cells(startSnake)
    IN  mode = "toroidal" =>
          /\ Distinct(obstacles)
          /\ Cells(obstacles) \subseteq free
          /\ Len(obstacles) = IF obstacleCount <= Cardinality(free)
                              THEN obstacleCount
                              ELSE Cardinality(free)

\* a reset that asked for two obstacles with one free cell and placed one
ObstaclePlacementWitness ==
    /\ mode = "toroidal"
    /\ op = "reset"
    /\ result.died
    /\ obstacleCount = 2
    /\ Len(obstacles) = 1

\* C17: when a food placement finds no grid cell off the snake and the
\* obstacles, food becomes absent and over stays false; the step that asked
\* for it returns ate = true, died = false; and while food is absent no step
\* returns ate = true.
FullBoard ==
    [][/\ ((op' = "reset" \/ (op' = "step" /\ result'.ate))
             /\ Grid \ (Cells(snake') \cup Cells(obstacles')) = {}) =>
            /\ food' = Null
            /\ ~over'
            /\ op' = "step" => result' = Outcome(TRUE, FALSE, "none")
       /\ (op' = "step" /\ food = Null) => (~result'.ate /\ food' = Null)]_vars

\* a step of the toroidal engine ate the food of the last free cell
FullBoardWitness ==
    /\ mode = "toroidal"
    /\ op = "step"
    /\ result.ate
    /\ food = Null
    /\ ~over

\* C18: every step returns died equal to over as it is after the call, a
\* reason exactly when the call changed over from false to true, and never
\* ate together with died.
FailuresAreData ==
    [][op' = "step" =>
         /\ result'.died = over'
         /\ (result'.reason \in {"wall", "self", "obstacle"}) = (~over /\ over')
         /\ result'.reason \in {"wall", "self", "obstacle", "none"}
         /\ ~(result'.ate /\ result'.died)]_vars

\* a game that had scored ended with a reason
FailuresAreDataWitness ==
    /\ op = "step"
    /\ over
    /\ result.died
    /\ result.reason # "none"
    /\ score >= 1

\* C19: after a non-fatal step that did not eat the snake is the candidate
\* head followed by the previous segments but the last; after a non-fatal
\* step that ate it is the candidate head followed by all previous segments.
BodyFollowsHead ==
    [][(op' = "step" /\ ~result'.died) =>
         /\ newHead' = (IF mode = "toroidal"
                        THEN Point((snake[1].x + direction'.x) % cols,
                                   (snake[1].y + direction'.y) % rows)
                        ELSE Point(snake[1].x + direction'.x,
                                   snake[1].y + direction'.y))
         /\ snake'[1] = newHead'
         /\ IF result'.ate
            THEN /\ Len(snake') = Len(snake) + 1
                 /\ \A i \in 1..Len(snake) : snake'[i + 1] = snake[i]
            ELSE /\ Len(snake') = Len(snake)
                 /\ \A i \in 1..(Len(snake) - 1) : snake'[i + 1] = snake[i]]_vars

\* a grown snake turned and its four segments followed
BodyFollowsHeadWitness ==
    /\ op = "step"
    /\ ~result.died
    /\ ~result.ate
    /\ Len(snake) = 4
    /\ direction # Point(1, 0)
    /\ snake[1] = newHead

\* C20: main.js invokes step only in frames that began with running = true
\* and game.over = false; after every frame accumulated is below TICK_MS, so
\* the time of a pause or of a finished game is never made up for; and a
\* click while the game is over resets the engine and sets running = true.
TickDriver ==
    [][/\ pc' \in {"stepTick", "step"} => (frame'.running /\ ~frame'.over)
       /\ ticks' = ticks + 1 => (pc = "step" /\ frame.running /\ ~frame.over)
       /\ pc' = "idle" => accumulated' < TICK_MS
       /\ (~shouldTick /\ pc = "idle") => (ticks' <= ticks /\ accumulated' <= accumulated)
       /\ (pc = "idle" /\ over /\ running' # running) =>
            /\ op' = "reset"
            /\ ~over'
            /\ score' = 0
            /\ running'
            /\ accumulated' = 0]_vars

\* the game ended, a click restarted it, a second click paused it, and a
\* frame went by without a step
TickDriverWitness ==
    /\ pc = "idle"
    /\ op = "reset"
    /\ result.died
    /\ ~running
    /\ frame = [running |-> FALSE, over |-> FALSE]

\* C21: in every state the snake has 3 + score segments and growAmount is 0:
\* the growth a step adds is used up by that same step.
LengthFollowsScore ==
    /\ Len(snake) = 3 + score
    /\ growAmount = 0

\* a step ate and the snake has its fourth segment
LengthFollowsScoreWitness ==
    /\ op = "step"
    /\ result.ate
    /\ score = 1
    /\ Len(snake) = 4

\* C22: food is absent exactly when no grid cell is off the snake and the
\* obstacles, and a step taken with food absent and over = false returns
\* died = true and sets over.
NoFoodIsFatal ==
    [][/\ (food = Null) = (freeCells(snake, obstacles) = {})
       /\ (food' = Null) = (freeCells(snake', obstacles') = {})
       /\ (op' = "step" /\ food = Null /\ ~over) =>
            /\ result'.died
            /\ result'.reason \in {"wall", "self", "obstacle"}
            /\ over'
            /\ snake' = snake]_vars

\* the snake ate the food of the last free cell and the step after it was fatal
NoFoodIsFatalWitness ==
    /\ op = "step"
    /\ food = Null
    /\ score >= 1
    /\ over
    /\ result.reason \in {"wall", "self", "obstacle"}

\* one unit step from b to a, with the coordinates compared modulo cols and
\* rows in the toroidal engine
UnitStepApart(a, b) ==
    \E d \in Dirs :
        IF mode = "toroidal"
        THEN /\ (a.x - b.x - d.x) % cols = 0
             /\ (a.y - b.y - d.y) % rows = 0
        ELSE a = Point(b.x + d.x, b.y + d.y)

\* C23: every two consecutive segments of the snake are one unit step apart
\* along one axis, modulo cols and rows in the toroidal engine.
Contiguity ==
    \A i \in 1..(Len(snake) - 1) : UnitStepApart(snake[i], snake[i + 1])

\* the head went through the right edge: it is in column 0 and its neck in
\* the last column of a grid of four columns
ContiguityWitness ==
    /\ mode = "toroidal"
    /\ cols = 4
    /\ op = "step"
    /\ ~over
    /\ snake[1].x = 0
    /\ snake[2].x = 3

=============================================================================
